---- MODULE Spec2Model ----
(***************************************************************************)
(* A model of mlx/io/gguf.cpp: save_gguf and load_gguf over a GGUF         *)
(* container, with the file kept at byte granularity where the code        *)
(* depends on it (value sizes, the context's cursor, tensor offsets and    *)
(* the tensor-data section).                                               *)
(***************************************************************************)
EXTENDS Integers, Sequences, FiniteSets, TLC

\* ------------------------------------------------------------------------
\* Bounds of the model
\* ------------------------------------------------------------------------
MaxNDim == 5        \* largest number of dimensions of a saved tensor
MaxTensors == 2     \* largest number of tensors in one array_map
MaxMeta == 2        \* largest number of entries in one metadata map
MaxExtKV == 2       \* largest number of metadata records in a foreign container
MaxExtTensors == 2  \* largest number of tensors in a foreign container

\* ------------------------------------------------------------------------
\* Small helpers over sequences and maps
\* ------------------------------------------------------------------------
Range(s) == {s[k] : k \in DOMAIN s}

Reverse(s) == [k \in 1..Len(s) |-> s[Len(s) + 1 - k]]

RECURSIVE Product(_)
Product(s) == IF s = <<>> THEN 1 ELSE Head(s) * Product(Tail(s))

RECURSIVE Pow2(_)
Pow2(n) == IF n = 0 THEN 1 ELSE 2 * Pow2(n - 1)

EmptyMap == [k \in {} |-> 0]

\* the iteration orders an unordered_map with key set S may have
Orders(S) == {o \in [1..Cardinality(S) -> S] : Range(o) = S}

\* std::unordered_map::insert: an existing entry is kept
MapInsert(m, k, v) ==
  IF k \in DOMAIN m THEN m ELSE [x \in DOMAIN m \cup {k} |-> IF x = k THEN v ELSE m[x]]

\* assignment through the reference operator[] / insert(...).first->second
MapAssign(m, k, v) == [x \in DOMAIN m \cup {k} |-> IF x = k THEN v ELSE m[x]]

\* ------------------------------------------------------------------------
\* Dtype (the host element types) and the tensor type codes of the container
\* ------------------------------------------------------------------------
Dtypes == {"bool_", "uint8", "uint16", "uint32", "uint64", "int8", "int16",
           "int32", "int64", "float16", "float32", "bfloat16", "complex64"}

itemsize(d) ==
  CASE d \in {"bool_", "uint8", "int8"} -> 1
    [] d \in {"uint16", "int16", "float16", "bfloat16"} -> 2
    [] d \in {"uint32", "int32", "float32"} -> 4
    [] OTHER -> 8

None == "none"

\* variant: the float32 and float16 tags exchanged
dtype_to_gguf_tensor_type_swapped(dtype) ==
  CASE dtype = "float32" -> "GGUF_TYPE_F16"
    [] dtype = "float16" -> "GGUF_TYPE_F32"
    [] dtype = "int8" -> "GGUF_TYPE_I8"
    [] dtype = "int16" -> "GGUF_TYPE_I16"
    [] dtype = "int32" -> "GGUF_TYPE_I32"
    [] OTHER -> None

\* variant: uint8 and bool_ mapped to the I8 tag instead of nullopt
dtype_to_gguf_tensor_type_lenient(dtype) ==
  CASE dtype = "float32" -> "GGUF_TYPE_F32"
    [] dtype = "float16" -> "GGUF_TYPE_F16"
    [] dtype \in {"int8", "uint8", "bool_"} -> "GGUF_TYPE_I8"
    [] dtype = "int16" -> "GGUF_TYPE_I16"
    [] dtype = "int32" -> "GGUF_TYPE_I32"
    [] OTHER -> None

dtype_to_gguf_tensor_type(dtype) ==
  CASE dtype = "float32" -> "GGUF_TYPE_F32"
    [] dtype = "float16" -> "GGUF_TYPE_F16"
    [] dtype = "int8" -> "GGUF_TYPE_I8"
    [] dtype = "int16" -> "GGUF_TYPE_I16"
    [] dtype = "int32" -> "GGUF_TYPE_I32"
    [] OTHER -> None

gguf_type_to_dtype(gguf_type) ==
  CASE gguf_type = "GGUF_TYPE_F32" -> "float32"
    [] gguf_type = "GGUF_TYPE_F16" -> "float16"
    [] gguf_type = "GGUF_TYPE_I8" -> "int8"
    [] gguf_type = "GGUF_TYPE_I16" -> "int16"
    [] gguf_type = "GGUF_TYPE_I32" -> "int32"
    [] OTHER -> None

\* ------------------------------------------------------------------------
\* array: the host tensor.  data is the raw buffer (data<char>()); a buffer
\* that is not row contiguous holds the elements in another order (here:
\* reversed), and reshape(flatten(a), a.shape()) copies them into row-major
\* order.
\* ------------------------------------------------------------------------
size(a) == Product(a.shape)

nbytes(a) == size(a) * itemsize(a.dtype)

ndim(a) == Len(a.shape)

ElemReverse(bytes, w) ==
  LET n == Len(bytes) \div w
  IN [j \in 1..Len(bytes) |-> bytes[(n - 1 - ((j - 1) \div w)) * w + ((j - 1) % w) + 1]]

\* the elements in row-major order, as bytes
Elements(a) == IF a.row_contiguous THEN a.data ELSE ElemReverse(a.data, itemsize(a.dtype))

MakeContiguous(a) == [a EXCEPT !.data = Elements(a), !.row_contiguous = TRUE]

NewArray(buffer, shape, dtype) ==
  [dtype |-> dtype, shape |-> shape, data |-> buffer, row_contiguous |-> TRUE]

\* array_equal together with the dtype and the shape
ArrayEq(a, b) == a.dtype = b.dtype /\ a.shape = b.shape /\ Elements(a) = Elements(b)

\* ------------------------------------------------------------------------
\* Shape order: the container stores dimensions in the reverse of host order
\* ------------------------------------------------------------------------
\* variant: dimensions taken in container order
get_shape_unreversed(tensor) == [k \in 1..tensor.ndim |-> tensor.dim[k]]

get_shape(tensor) == [k \in 1..tensor.ndim |-> tensor.dim[tensor.ndim + 1 - k]]

\* save_gguf: dim[i] = arr.shape()[num_dim - 1 - i]
save_dims(arr) ==
  LET num_dim == ndim(arr) IN [k \in 1..num_dim |-> arr.shape[num_dim + 1 - k]]

\* ------------------------------------------------------------------------
\* The container library (gguflib): sizes, padding, the records of a file
\* ------------------------------------------------------------------------
gguf_array_header_size == 12

sizeof_gguf_string == 8

gguf_get_alignment_padding(alignment, offset) ==
  (alignment - (offset % alignment)) % alignment

\* bytes of one metadata record: length-prefixed key, type tag, value
KVSize(kv) == 8 + Len(kv.name) + 4 + kv.size

\* bytes of one tensor descriptor
TISize(ti) == 8 + Len(ti.name) + 4 + 8 * ti.ndim + 4 + 8

RECURSIVE SumSizes(_, _)
SumSizes(recs, upto) ==
  IF upto = 0 THEN 0 ELSE SumSizes(recs, upto - 1) + KVSize(recs[upto])

\* offset of the k-th metadata record, relative to the first one
KVStart(kvs, k) == SumSizes(kvs, k - 1)

KVEnd(kvs) == SumSizes(kvs, Len(kvs))

Zeros(n) == [j \in 1..n |-> 0]

NoFile == [exists |-> FALSE, kv |-> <<>>, ti |-> <<>>, data |-> <<>>]

NoCtx == [open |-> FALSE, alignment |-> 0, off |-> 0, left_kv |-> 0, left_tensors |-> 0,
          lost |-> FALSE]

\* gguf_append_kv: writes the key, the type tag and `len` bytes of the value
gguf_append_kv(file, name, type, val, len) ==
  [file EXCEPT !.kv = Append(@, [name |-> name, type |-> type, val |-> val, size |-> len])]

gguf_append_tensor_info(file, name, num_dim, dim, type, offset) ==
  [file EXCEPT !.ti = Append(@, [name |-> name, ndim |-> num_dim, dim |-> dim,
                                 type |-> type, offset |-> offset])]

\* gguf_append_tensor_data: pads the data section to the alignment, then
\* writes the bytes
gguf_append_tensor_data(file, alignment, bytes) ==
  [file EXCEPT !.data =
     @ \o Zeros(gguf_get_alignment_padding(alignment, Len(@))) \o bytes]

\* ------------------------------------------------------------------------
\* MetaData (host side) and gguf_value (on disk)
\* ------------------------------------------------------------------------
NoArray == [dtype |-> None, shape |-> <<>>, data |-> <<>>, row_contiguous |-> TRUE]

Monostate == [kind |-> "monostate", arr |-> NoArray, str |-> "", strs |-> <<>>]

MdString(s) == [Monostate EXCEPT !.kind = "string", !.str = s]

MdStrings(ss) == [Monostate EXCEPT !.kind = "strings", !.strs = ss]

MdArray(a) == [Monostate EXCEPT !.kind = "array", !.arr = a]

\* equality of decoded metadata values: same variant, same string(s), same
\* dtype, shape and elements
MetaEq(x, y) ==
  /\ x.kind = y.kind
  /\ x.str = y.str
  /\ x.strs = y.strs
  /\ ArrayEq(x.arr, y.arr)

ScalarValue(bytes) == [atype |-> None, len |-> 0, bytes |-> bytes, strs |-> <<>>]

StringValue(s) == [atype |-> None, len |-> Len(s), bytes |-> <<>>, strs |-> <<s>>]

ArrayValue(t, n, bytes, strs) == [atype |-> t, len |-> n, bytes |-> bytes, strs |-> strs]

RECURSIVE SumLen(_)
SumLen(ss) == IF ss = <<>> THEN 0 ELSE Len(Head(ss)) + SumLen(Tail(ss))

\* the switch of save_gguf over v.dtype()
MetaValueType(dtype) ==
  CASE dtype = "float32" -> "GGUF_VALUE_TYPE_FLOAT32"
    [] dtype = "int64" -> "GGUF_VALUE_TYPE_INT64"
    [] dtype = "int32" -> "GGUF_VALUE_TYPE_INT32"
    [] dtype = "int16" -> "GGUF_VALUE_TYPE_INT16"
    [] dtype = "int8" -> "GGUF_VALUE_TYPE_INT8"
    [] dtype = "uint64" -> "GGUF_VALUE_TYPE_UINT64"
    [] dtype = "uint32" -> "GGUF_VALUE_TYPE_UINT32"
    [] dtype = "uint16" -> "GGUF_VALUE_TYPE_UINT16"
    [] dtype = "uint8" -> "GGUF_VALUE_TYPE_UINT8"
    [] dtype = "bool_" -> "GGUF_VALUE_TYPE_BOOL"
    [] OTHER -> None

Throws(what) ==
  [throws |-> TRUE, what |-> what, type |-> None, val |-> ScalarValue(<<>>), size |-> 0]

Record(type, val, len) ==
  [throws |-> FALSE, what |-> "", type |-> type, val |-> val, size |-> len]

\* variant: length passed without the array header
append_kv_array_no_header(val, gguf_type) ==
  IF ndim(val) = 1
    THEN Record("GGUF_VALUE_TYPE_ARRAY",
                ArrayValue(gguf_type, size(val), val.data, <<>>),
                nbytes(val))
    ELSE Record(gguf_type, ScalarValue(val.data), nbytes(val))

\* append_kv_array: what it hands to gguf_append_kv
append_kv_array(val, gguf_type) ==
  IF ndim(val) = 1
    THEN Record("GGUF_VALUE_TYPE_ARRAY",
                ArrayValue(gguf_type, size(val), val.data, <<>>),
                nbytes(val) + gguf_array_header_size)
    ELSE Record(gguf_type, ScalarValue(val.data), nbytes(val))

\* the body of save_gguf's loop over the metadata: what is appended for one
\* entry, or that it throws
save_metadata_entry(value) ==
  CASE value.kind = "string" ->
         Record("GGUF_VALUE_TYPE_STRING", StringValue(value.str),
                sizeof_gguf_string + Len(value.str))
    [] value.kind = "strings" ->
         Record("GGUF_VALUE_TYPE_ARRAY",
                ArrayValue("GGUF_VALUE_TYPE_STRING", Len(value.strs), <<>>, value.strs),
                SumLen(value.strs) + Len(value.strs) * sizeof_gguf_string
                  + gguf_array_header_size)
    [] value.kind = "array" ->
         IF ndim(value.arr) > 1
           THEN Throws("[save_gguf] Cannot save arrays with more than one dimension.")
         ELSE IF size(value.arr) = 0 THEN Throws("[save_gguf] Cannot save empty arrays.")
         ELSE LET v == IF value.arr.row_contiguous THEN value.arr
                       ELSE MakeContiguous(value.arr)
              IN IF ~v.row_contiguous
                   THEN Throws("[save_gguf] Cannot save non contiguous arrays.")
                 ELSE IF MetaValueType(v.dtype) = None
                   THEN Throws("[save_gguf] array type not support for metadata.")
                 ELSE append_kv_array(v, MetaValueType(v.dtype))
    [] OTHER -> Throws("[save_gguf] Received unexpected type in metadata")

\* ------------------------------------------------------------------------
\* Decoding of metadata values (set_mx_value_from_gguf)
\* ------------------------------------------------------------------------
ScalarTypes ==
  {"GGUF_VALUE_TYPE_UINT8", "GGUF_VALUE_TYPE_INT8", "GGUF_VALUE_TYPE_UINT16",
   "GGUF_VALUE_TYPE_INT16", "GGUF_VALUE_TYPE_UINT32", "GGUF_VALUE_TYPE_INT32",
   "GGUF_VALUE_TYPE_UINT64", "GGUF_VALUE_TYPE_INT64", "GGUF_VALUE_TYPE_FLOAT32",
   "GGUF_VALUE_TYPE_BOOL", "GGUF_VALUE_TYPE_FLOAT64"}

\* bytes one element of a value type occupies on disk
ValueWidth(type) ==
  CASE type \in {"GGUF_VALUE_TYPE_UINT8", "GGUF_VALUE_TYPE_INT8", "GGUF_VALUE_TYPE_BOOL"} -> 1
    [] type \in {"GGUF_VALUE_TYPE_UINT16", "GGUF_VALUE_TYPE_INT16"} -> 2
    [] type \in {"GGUF_VALUE_TYPE_UINT32", "GGUF_VALUE_TYPE_INT32",
                 "GGUF_VALUE_TYPE_FLOAT32"} -> 4
    [] type \in {"GGUF_VALUE_TYPE_UINT64", "GGUF_VALUE_TYPE_INT64",
                 "GGUF_VALUE_TYPE_FLOAT64"} -> 8
    [] OTHER -> 0

\* the host dtype each case of set_mx_value_from_gguf builds
ValueDtype(type) ==
  CASE type = "GGUF_VALUE_TYPE_UINT8" -> "uint8"
    [] type = "GGUF_VALUE_TYPE_INT8" -> "int8"
    [] type = "GGUF_VALUE_TYPE_UINT16" -> "uint16"
    [] type = "GGUF_VALUE_TYPE_INT16" -> "int16"
    [] type = "GGUF_VALUE_TYPE_UINT32" -> "uint32"
    [] type = "GGUF_VALUE_TYPE_INT32" -> "int32"
    [] type = "GGUF_VALUE_TYPE_UINT64" -> "uint64"
    [] type = "GGUF_VALUE_TYPE_INT64" -> "int64"
    [] type = "GGUF_VALUE_TYPE_FLOAT32" -> "float32"
    [] type = "GGUF_VALUE_TYPE_BOOL" -> "bool_"
    [] type = "GGUF_VALUE_TYPE_FLOAT64" -> "float32"
    [] OTHER -> None

\* double -> float of one little-endian value (exact for the values whose
\* low 29 mantissa bits are zero; out-of-range exponents go to 0 / infinity)
Float64ToFloat32(b) ==
  LET hi == b[8] * 256 + b[7]
      sign == hi \div 32768
      e == (hi \div 16) % 2048
      mant == (hi % 16) * 524288 + b[6] * 2048 + b[5] * 8 + (b[4] \div 32)
      e32 == IF e = 2047 \/ e - 896 >= 255 THEN 255
             ELSE IF e - 896 <= 0 THEN 0 ELSE e - 896
      m32 == IF e32 = 0 \/ (e32 = 255 /\ e # 2047) THEN 0 ELSE mant
  IN <<m32 % 256, (m32 \div 256) % 256, (e32 % 2) * 128 + (m32 \div 65536),
       sign * 128 + (e32 \div 2)>>

RECURSIVE ConvertElements(_, _, _)
\* array(reinterpret_cast<T*>(data), {size}, dtype): the first n elements
ConvertElements(type, bytes, n) ==
  IF n = 0 THEN <<>>
  ELSE LET w == ValueWidth(type)
           head == SubSeq(bytes, 1, w)
           rest == SubSeq(bytes, w + 1, Len(bytes))
       IN (IF type = "GGUF_VALUE_TYPE_FLOAT64" THEN Float64ToFloat32(head) ELSE head)
            \o ConvertElements(type, rest, n - 1)

Decoded(value, adv) == [throws |-> FALSE, what |-> "", value |-> value, adv |-> adv]

DecodeThrows(what, adv) == [throws |-> TRUE, what |-> what, value |-> Monostate, adv |-> adv]

\* the final cursor update of set_mx_value_from_gguf
value_advance(type, value) ==
  IF type = "GGUF_VALUE_TYPE_STRING" THEN sizeof_gguf_string + Len(value.str)
  ELSE IF value.kind = "array" THEN nbytes(value.arr)
  ELSE 0

\* variant: no check of the inner tag, nothing thrown
decode_array_lenient(val) ==
  IF val.atype \in ScalarTypes
    THEN LET value == MdArray(NewArray(ConvertElements(val.atype, val.bytes, val.len),
                                       <<val.len>>, ValueDtype(val.atype)))
         IN Decoded(value, gguf_array_header_size + value_advance("GGUF_VALUE_TYPE_ARRAY", value))
  ELSE IF val.atype = "GGUF_VALUE_TYPE_STRING"
    THEN LET value == MdStrings(val.strs)
         IN Decoded(value,
                    gguf_array_header_size + SumLen(val.strs)
                      + Len(val.strs) * sizeof_gguf_string
                      + value_advance("GGUF_VALUE_TYPE_ARRAY", value))
  ELSE Decoded(Monostate, gguf_array_header_size)

\* case GGUF_VALUE_TYPE_ARRAY of set_mx_value_from_gguf
decode_array(val) ==
  IF val.atype = "GGUF_VALUE_TYPE_ARRAY"
    THEN DecodeThrows("[load_gguf] Only supports loading 1-layer of nested arrays.",
                      gguf_array_header_size)
  ELSE IF val.atype \in ScalarTypes
    THEN LET value == MdArray(NewArray(ConvertElements(val.atype, val.bytes, val.len),
                                       <<val.len>>, ValueDtype(val.atype)))
         IN Decoded(value, gguf_array_header_size + value_advance("GGUF_VALUE_TYPE_ARRAY", value))
  ELSE IF val.atype = "GGUF_VALUE_TYPE_STRING"
    THEN LET value == MdStrings(val.strs)
         IN Decoded(value,
                    gguf_array_header_size + SumLen(val.strs)
                      + Len(val.strs) * sizeof_gguf_string
                      + value_advance("GGUF_VALUE_TYPE_ARRAY", value))
  ELSE DecodeThrows("[load_gguf] Multiple levels of nested arrays are not supported.",
                    gguf_array_header_size)

\* set_mx_value_from_gguf: the value it stores and how far it moves ctx->off,
\* or that it throws
set_mx_value_from_gguf(type, val) ==
  CASE type \in ScalarTypes ->
         LET value == MdArray(NewArray(ConvertElements(type, val.bytes, 1), <<>>,
                                       ValueDtype(type)))
         IN Decoded(value, value_advance(type, value))
    [] type = "GGUF_VALUE_TYPE_STRING" ->
         LET value == MdString(SubSeq(val.strs[1], 1, val.len))
         IN Decoded(value, value_advance(type, value))
    [] type = "GGUF_VALUE_TYPE_ARRAY" -> decode_array(val)
    [] OTHER -> DecodeThrows("[load_gguf] Received unexpected type.", 0)

\* ------------------------------------------------------------------------
\* Reading tensors (gguf_get_tensor, extract_tensor_data, load_arrays)
\* ------------------------------------------------------------------------
\* items per block and bytes per block of the tensor types
TypeFeatures(type) ==
  CASE type \in {"GGUF_TYPE_F32", "GGUF_TYPE_I32"} -> [items |-> 1, bytes |-> 4]
    [] type \in {"GGUF_TYPE_F16", "GGUF_TYPE_I16"} -> [items |-> 1, bytes |-> 2]
    [] type = "GGUF_TYPE_I8" -> [items |-> 1, bytes |-> 1]
    [] type = "GGUF_TYPE_Q4_0" -> [items |-> 32, bytes |-> 18]
    [] type = "GGUF_TYPE_Q4_1" -> [items |-> 32, bytes |-> 20]
    [] type = "GGUF_TYPE_Q5_0" -> [items |-> 32, bytes |-> 22]
    [] OTHER -> [items |-> 32, bytes |-> 34]   \* GGUF_TYPE_Q8_0

\* n bytes of the data section from offset off (bytes past its end read as 0)
DataAt(data, off, n) == [j \in 1..n |-> IF off + j <= Len(data) THEN data[off + j] ELSE 0]

\* the gguf_tensor that gguf_get_tensor fills from a descriptor
gguf_get_tensor(file, ti) ==
  LET tf == TypeFeatures(ti.type)
      num_weights == Product(ti.dim)
      weights_padding == gguf_get_alignment_padding(tf.items, num_weights)
      bsize == ((num_weights + weights_padding) \div tf.items) * tf.bytes
  IN [name |-> ti.name, ndim |-> ti.ndim, dim |-> ti.dim, type |-> ti.type,
      offset |-> ti.offset, num_weights |-> num_weights, bsize |-> bsize,
      weights_data |-> DataAt(file.data, ti.offset, bsize)]

\* allocator::malloc(n): n bytes of whatever the allocation held before
Malloc(n, heap) == [j \in 1..n |-> heap]

\* memcpy(dst, src, n)
Memcpy(dst, src, n) == [j \in 1..Len(dst) |-> IF j <= n THEN src[j] ELSE dst[j]]

Extracted(buffer, dtype) ==
  [throws |-> FALSE, what |-> "", buffer |-> buffer, dtype |-> dtype]

ExtractThrows(what) == [throws |-> TRUE, what |-> what, buffer |-> <<>>, dtype |-> None]

\* gguf_tensor_to_f16 of the container library: NULL for the types it cannot
\* convert
\* the half nearest to q * 2^(e - 15), q an int8 and e the exponent field of
\* a scale that is a power of two
HalfOfScaled(q, sign, e) ==
  LET mag == IF q < 0 THEN -q ELSE q
      sg == IF q < 0 THEN 1 - sign ELSE sign
  IN IF mag = 0 THEN <<0, sg * 128>>
     ELSE LET a == CHOOSE x \in 0..7 : Pow2(x) <= mag /\ mag < Pow2(x + 1)
          IN IF a + e >= 31 THEN <<0, sg * 128 + 124>>
             ELSE <<((mag - Pow2(a)) * Pow2(10 - a)) % 256,
                    sg * 128 + (a + e) * 4 + (((mag - Pow2(a)) * Pow2(10 - a)) \div 256)>>

\* gguf_tensor_to_f16 of the container library: every weight of an 8-bit
\* symmetric tensor as scale * int8 (for power-of-two scales), NULL for the
\* types it cannot convert
gguf_tensor_to_f16(tensor) ==
  IF tensor.type = "GGUF_TYPE_Q8_0"
    THEN [null |-> FALSE,
          data |-> [j \in 1..(tensor.num_weights * 2) |->
                      LET w == (j - 1) \div 2
                          blk == w \div 32
                          hi == tensor.weights_data[blk * 34 + 2]
                          byte == tensor.weights_data[blk * 34 + 2 + (w % 32) + 1]
                          q == IF byte >= 128 THEN byte - 256 ELSE byte
                      IN HalfOfScaled(q, hi \div 128, (hi \div 4) % 32)[((j - 1) % 2) + 1]]]
    ELSE [null |-> TRUE, data |-> <<>>]

extract_tensor_data(tensor, heap) ==
  LET equivalent_dtype == gguf_type_to_dtype(tensor.type)
  IN IF equivalent_dtype # None
       THEN Extracted(Memcpy(Malloc(tensor.bsize, heap), tensor.weights_data,
                             tensor.num_weights * itemsize(equivalent_dtype)),
                      equivalent_dtype)
     ELSE LET data == gguf_tensor_to_f16(tensor)
              new_size == tensor.num_weights * 2
          IN IF data.null THEN ExtractThrows("[load_gguf] gguf_tensor_to_f16 failed")
             ELSE Extracted(Memcpy(Malloc(new_size, heap), data.data, new_size), "float16")

Loaded(map) == [throws |-> FALSE, what |-> "", map |-> map]

LoadThrows(what) == [throws |-> TRUE, what |-> what, map |-> EmptyMap]

\* ------------------------------------------------------------------------
\* Half precision values as two little-endian bytes
\* ------------------------------------------------------------------------
HalfBytes(sign, e, m) == <<m % 256, sign * 128 + e * 4 + (m \div 256)>>

\* -(2^k) * h in half precision (exact, or infinity on overflow)
HalfTimesMinusPow2(h, k) ==
  LET bits == h[2] * 256 + h[1]
      sign == 1 - (bits \div 32768)
      e == (bits \div 1024) % 32
      m == bits % 1024
  IN IF e = 31 THEN HalfBytes(sign, 31, m)
     ELSE IF e > 0
       THEN (IF e + k >= 31 THEN HalfBytes(sign, 31, 0) ELSE HalfBytes(sign, e + k, m))
     ELSE IF m * Pow2(k) < 1024 THEN HalfBytes(sign, 0, m * Pow2(k))
     ELSE LET t == CHOOSE x \in 1..k : m * Pow2(x) >= 1024 /\ m * Pow2(x) < 2048
          IN HalfBytes(sign, k - t + 1, m * Pow2(t) - 1024)

\* ------------------------------------------------------------------------
\* The quantized block extractors
\* ------------------------------------------------------------------------
weight_suffix == ".weight"

ends_with_weight(name) ==
  /\ Len(name) > Len(weight_suffix)
  /\ SubSeq(name, Len(name) - Len(weight_suffix) + 1, Len(name)) = weight_suffix

\* name.substr(0, name.length() - weight_suffix.length())
name_prefix(name) == SubSeq(name, 1, Len(name) - Len(weight_suffix))

scales_name_of(name) == name_prefix(name) \o ".scales"

biases_name_of(name) == name_prefix(name) \o ".biases"

LastDim(shape) == shape[Len(shape)]

WithLastDim(shape, d) == [k \in 1..Len(shape) |-> IF k = Len(shape) THEN d ELSE shape[k]]

\* byte j (from 0) of block i (from 0)
BlockByte(tensor, bytes_per_block, blk, j) == tensor.weights_data[blk * bytes_per_block + j + 1]

\* scales[i] for every block: the leading half of each block
BlockHalves(tensor, bytes_per_block, num_blocks, at) ==
  [j \in 1..(num_blocks * 2) |->
     BlockByte(tensor, bytes_per_block, (j - 1) \div 2, at + ((j - 1) % 2))]

\* biases[i] = -(2^k) * scales[i] for every block
DerivedBiases(scales, num_blocks, k) ==
  [j \in 1..(num_blocks * 2) |->
     HalfTimesMinusPow2(<<scales[2 * ((j - 1) \div 2) + 1], scales[2 * ((j - 1) \div 2) + 2]>>,
                        k)[((j - 1) % 2) + 1]]

\* the two loops over the 16 packed bytes of a 4-bit block, adding into the
\* freshly allocated weights buffer; `at` is where the packed bytes start
NibbleWeights(tensor, bytes_per_block, at, heap) ==
  [j \in 1..(tensor.num_weights \div 2) |->
     LET blk == (j - 1) \div 16
         pos == (j - 1) % 16
         k == pos % 8
         b0 == BlockByte(tensor, bytes_per_block, blk, at + 2 * k)
         b1 == BlockByte(tensor, bytes_per_block, blk, at + 2 * k + 1)
     IN IF pos < 8
          THEN (heap + (b0 % 16) + (((b1 % 16) * 16) % 256)) % 256
          ELSE (heap + (b0 \div 16) + (((b1 \div 16) * 16) % 256)) % 256]

\* the three inserts that end every extractor
insert_quantized(map, name, weights, scales, biases) ==
  MapInsert(MapInsert(MapInsert(map, name, weights), scales_name_of(name), scales),
            biases_name_of(name), biases)

Digit(d) == SubSeq("0123456789", d + 1, d + 1)

RECURSIVE Decimal(_)
\* operator<< of a non-negative integer
Decimal(n) == IF n < 10 THEN Digit(n) ELSE Decimal(n \div 10) \o Digit(n % 10)

\* msg << "[load_gguf] tensor " << name << "has incompatible last dim shape: "
\*     << shape[shape.size() - 1]
IncompatibleLastDim(name, last_dim) ==
  "[load_gguf] tensor " \o name \o "has incompatible last dim shape: " \o Decimal(last_dim)

\* variant: the last dimension of the packed weights divided by 4 only
extract_q4_1_data_wide(map, tensor, heap) ==
  LET shape == get_shape(tensor)
      num_blocks == tensor.num_weights \div 32
      scale_bias_shape == WithLastDim(shape, LastDim(shape) \div 32)
  IN IF LastDim(shape) % 32 # 0
       THEN LoadThrows(IncompatibleLastDim(tensor.name, LastDim(shape)))
     ELSE Loaded(insert_quantized(map, tensor.name,
            NewArray(NibbleWeights(tensor, 20, 4, heap),
                     WithLastDim(shape, LastDim(shape) \div 4), "uint32"),
            NewArray(BlockHalves(tensor, 20, num_blocks, 0), scale_bias_shape, "float16"),
            NewArray(BlockHalves(tensor, 20, num_blocks, 2), scale_bias_shape, "float16")))

extract_q4_1_data(map, tensor, heap) ==
  LET shape == get_shape(tensor)
      num_blocks == tensor.num_weights \div 32
      scale_bias_shape == WithLastDim(shape, LastDim(shape) \div 32)
  IN IF LastDim(shape) % 32 # 0 THEN LoadThrows(IncompatibleLastDim(tensor.name, LastDim(shape)))
     ELSE Loaded(insert_quantized(map, tensor.name,
            NewArray(NibbleWeights(tensor, 20, 4, heap),
                     WithLastDim(shape, (LastDim(shape) \div 2) \div 4), "uint32"),
            NewArray(BlockHalves(tensor, 20, num_blocks, 0), scale_bias_shape, "float16"),
            NewArray(BlockHalves(tensor, 20, num_blocks, 2), scale_bias_shape, "float16")))

\* variant: the weight bytes copied without the sign-bit flip
extract_q8_0_data_no_flip(map, tensor, heap) ==
  LET shape == get_shape(tensor)
      num_blocks == tensor.num_weights \div 32
      scale_bias_shape == WithLastDim(shape, LastDim(shape) \div 32)
      scales == BlockHalves(tensor, 34, num_blocks, 0)
  IN IF LastDim(shape) % 32 # 0 THEN LoadThrows(IncompatibleLastDim(tensor.name, LastDim(shape)))
     ELSE Loaded(insert_quantized(map, tensor.name,
            NewArray([j \in 1..tensor.num_weights |->
                        BlockByte(tensor, 34, (j - 1) \div 32, 2 + ((j - 1) % 32))],
                     WithLastDim(shape, (LastDim(shape) \div 1) \div 4), "uint32"),
            NewArray(scales, scale_bias_shape, "float16"),
            NewArray(DerivedBiases(scales, num_blocks, 7), scale_bias_shape, "float16")))

extract_q8_0_data(map, tensor, heap) ==
  LET shape == get_shape(tensor)
      num_blocks == tensor.num_weights \div 32
      scale_bias_shape == WithLastDim(shape, LastDim(shape) \div 32)
      scales == BlockHalves(tensor, 34, num_blocks, 0)
  IN IF LastDim(shape) % 32 # 0 THEN LoadThrows(IncompatibleLastDim(tensor.name, LastDim(shape)))
     ELSE Loaded(insert_quantized(map, tensor.name,
            NewArray([j \in 1..tensor.num_weights |->
                        (BlockByte(tensor, 34, (j - 1) \div 32, 2 + ((j - 1) % 32)) + 128) % 256],
                     WithLastDim(shape, (LastDim(shape) \div 1) \div 4), "uint32"),
            NewArray(scales, scale_bias_shape, "float16"),
            NewArray(DerivedBiases(scales, num_blocks, 7), scale_bias_shape, "float16")))

\* the extractor of the 4-bit scheme without an explicit bias
extract_q4_0_data(map, tensor, heap) ==
  LET shape == get_shape(tensor)
      num_blocks == tensor.num_weights \div 32
      scale_bias_shape == WithLastDim(shape, LastDim(shape) \div 32)
      scales == BlockHalves(tensor, 18, num_blocks, 0)
  IN IF LastDim(shape) % 32 # 0 THEN LoadThrows(IncompatibleLastDim(tensor.name, LastDim(shape)))
     ELSE Loaded(insert_quantized(map, tensor.name,
            NewArray(NibbleWeights(tensor, 18, 2, heap),
                     WithLastDim(shape, (LastDim(shape) \div 2) \div 4), "uint32"),
            NewArray(scales, scale_bias_shape, "float16"),
            NewArray(DerivedBiases(scales, num_blocks, 3), scale_bias_shape, "float16")))

\* variant: the Q4_1 branch missing from the dispatch
load_tensor_no_q4_1(map, tensor, heap) ==
  IF ends_with_weight(tensor.name) /\ tensor.type = "GGUF_TYPE_Q4_0"
    THEN extract_q4_0_data(map, tensor, heap)
  ELSE IF ends_with_weight(tensor.name) /\ tensor.type = "GGUF_TYPE_Q8_0"
    THEN extract_q8_0_data(map, tensor, heap)
  ELSE LET ex == extract_tensor_data(tensor, heap)
       IN IF ex.throws THEN LoadThrows(ex.what)
          ELSE Loaded(MapInsert(map, tensor.name,
                                NewArray(ex.buffer, get_shape(tensor), ex.dtype)))

\* the body of load_arrays' loop for one tensor: the map after it, or that
\* it throws
load_tensor(map, tensor, heap) ==
  IF ends_with_weight(tensor.name) /\ tensor.type = "GGUF_TYPE_Q4_0"
    THEN extract_q4_0_data(map, tensor, heap)
  ELSE IF ends_with_weight(tensor.name) /\ tensor.type = "GGUF_TYPE_Q4_1"
    THEN extract_q4_1_data(map, tensor, heap)
  ELSE IF ends_with_weight(tensor.name) /\ tensor.type = "GGUF_TYPE_Q8_0"
    THEN extract_q8_0_data(map, tensor, heap)
  ELSE LET ex == extract_tensor_data(tensor, heap)
       IN IF ex.throws THEN LoadThrows(ex.what)
          ELSE Loaded(MapInsert(map, tensor.name,
                                NewArray(ex.buffer, get_shape(tensor), ex.dtype)))

\* insert({key_name, MetaData{}}).first->second, assigned by the decoder
load_metadata_store(map, key_name, value) == MapAssign(map, key_name, value)

\* ------------------------------------------------------------------------
\* The inputs of save_gguf that the model draws from
\* ------------------------------------------------------------------------
Pattern(dtype, seed, n) ==
  [j \in 1..n |-> IF dtype = "bool_" THEN (seed + j) % 2 ELSE (seed * 37 + j * 11) % 256]

Arr(dtype, shape, contiguous, seed) ==
  [dtype |-> dtype, shape |-> shape,
   data |-> Pattern(dtype, seed, Product(shape) * itemsize(dtype)),
   row_contiguous |-> contiguous]

ShapeOf(n) == [k \in 1..n |-> (k % 3) + 1]

WideShapes == {ShapeOf(n) : n \in 0..MaxNDim} \cup {<<0>>, <<2, 0>>}

NarrowShapes == {<<>>, <<7>>, <<3, 2>>}

NarrowDtypes == {"int8", "float16", "float32", "uint8"}

TensorName(k) == IF k % 2 = 0 THEN "t" \o ToString(k) \o ".weight" ELSE "t" \o ToString(k)

KeyName(k) == "k" \o ToString(k)

\* one tensor of every dtype and shape, alone in the map
WideMaps ==
  {[n \in {TensorName(1)} |-> Arr(d, sh, c, 1)] :
     d \in Dtypes, sh \in WideShapes, c \in BOOLEAN}

\* several tensors of a few dtypes and shapes
NarrowMaps ==
  UNION {{[n \in {TensorName(k) : k \in 1..cnt} |->
             LET k == CHOOSE x \in 1..cnt : TensorName(x) = n
             IN Arr(f[k][1], f[k][2], TRUE, k)] :
            f \in [1..cnt -> NarrowDtypes \X NarrowShapes]} : cnt \in 2..MaxTensors}

MetaValues ==
  {MdString("hello"), MdString(""), MdStrings(<<"ab", "c">>),
   MdArray(Arr("float32", <<>>, TRUE, 3)),
   MdArray(Arr("int64", <<>>, TRUE, 4)),
   MdArray(Arr("int32", <<3>>, FALSE, 5)),
   MdArray(Arr("bool_", <<2>>, TRUE, 6)),
   MdArray(Arr("float16", <<>>, TRUE, 7)),
   MdArray(Arr("int32", <<1, 2>>, TRUE, 8)),
   MdArray(Arr("uint8", <<0>>, TRUE, 9)),
   Monostate}

MetaMaps ==
  UNION {[{KeyName(k) : k \in 1..cnt} -> MetaValues] : cnt \in 0..MaxMeta}

\* the tensor maps saved together with metadata
MetaArrayMaps ==
  {EmptyMap,
   [n \in {TensorName(1), TensorName(2)} |->
      IF n = TensorName(1) THEN Arr("float32", <<4>>, TRUE, 1)
      ELSE Arr("int32", <<3, 2>>, FALSE, 2)]}

SaveInputs ==
  ((WideMaps \cup NarrowMaps \cup {EmptyMap}) \X {EmptyMap})
    \cup (MetaArrayMaps \X MetaMaps)

\* ctx->alignment of a created context
Alignments == {8, 32}

\* ------------------------------------------------------------------------
\* Containers written by other programs that the model draws from
\* ------------------------------------------------------------------------
\* bytes a value occupies on disk
ValueDiskSize(type, val) ==
  CASE type \in ScalarTypes -> ValueWidth(type)
    [] type = "GGUF_VALUE_TYPE_STRING" -> sizeof_gguf_string + val.len
    [] type = "GGUF_VALUE_TYPE_ARRAY" ->
         gguf_array_header_size
           + (IF val.atype = "GGUF_VALUE_TYPE_STRING"
                THEN SumLen(val.strs) + Len(val.strs) * sizeof_gguf_string
                ELSE Len(val.bytes))
    [] OTHER -> Len(val.bytes)

DiskKV(name, type, val) ==
  [name |-> name, type |-> type, val |-> val, size |-> ValueDiskSize(type, val)]

\* 3.5 as a little-endian double, 2.0 as a little-endian double
Double3p5 == <<0, 0, 0, 0, 0, 0, 12, 64>>

Double2p0 == <<0, 0, 0, 0, 0, 0, 0, 64>>

ExtValues ==
  {<<"GGUF_VALUE_TYPE_FLOAT64", ScalarValue(Double3p5)>>,
   <<"GGUF_VALUE_TYPE_INT32", ScalarValue(<<7, 0, 0, 0>>)>>,
   <<"GGUF_VALUE_TYPE_BOOL", ScalarValue(<<1>>)>>,
   <<"GGUF_VALUE_TYPE_STRING", StringValue("x")>>,
   <<"GGUF_VALUE_TYPE_ARRAY", ArrayValue("GGUF_VALUE_TYPE_ARRAY", 1, Zeros(12), <<>>)>>,
   <<"GGUF_VALUE_TYPE_ARRAY", ArrayValue("GGUF_VALUE_TYPE_STRING", 2, <<>>, <<"ab", "c">>)>>,
   <<"GGUF_VALUE_TYPE_ARRAY", ArrayValue("GGUF_VALUE_TYPE_FLOAT64", 2,
                                         Double3p5 \o Double2p0, <<>>)>>,
   <<"GGUF_VALUE_TYPE_ARRAY", ArrayValue("GGUF_VALUE_TYPE_UINT16", 2, <<1, 0, 2, 0>>, <<>>)>>,
   <<"GGUF_VALUE_TYPE_UNKNOWN", ScalarValue(<<0>>)>>}

ExtKVs == {DiskKV(KeyName(k), v[1], v[2]) : k \in 1..2, v \in ExtValues}

ExtKVSeqs == UNION {[1..n -> ExtKVs] : n \in 0..MaxExtKV}

\* what a cursor that is off the records may make gguf_get_key return
GarbageKeys ==
  {[name |-> "?", type |-> "GGUF_VALUE_TYPE_UINT8", val |-> ScalarValue(<<0>>), size |-> 1],
   [name |-> "?", type |-> "GGUF_VALUE_TYPE_UNKNOWN", val |-> ScalarValue(<<0>>), size |-> 1]}

\* what a cursor that is off the descriptors may make gguf_get_tensor return
GarbageTensors ==
  {[name |-> "?", ndim |-> 1, dim |-> <<1>>, type |-> "GGUF_TYPE_I8", offset |-> 0]}

ExtDescriptors ==
  {[name |-> "q", type |-> "GGUF_TYPE_I16", dim |-> <<2, 3>>],
   [name |-> "p.scales", type |-> "GGUF_TYPE_F16", dim |-> <<1>>],
   [name |-> "p.biases", type |-> "GGUF_TYPE_F32", dim |-> <<1>>],
   [name |-> "p.weight", type |-> "GGUF_TYPE_F16", dim |-> <<3>>],
   [name |-> "p.weight", type |-> "GGUF_TYPE_Q4_0", dim |-> <<32>>],
   [name |-> "p.weight", type |-> "GGUF_TYPE_Q4_1", dim |-> <<32, 2>>],
   [name |-> "p.weight", type |-> "GGUF_TYPE_Q8_0", dim |-> <<64>>],
   [name |-> "r.weight", type |-> "GGUF_TYPE_Q8_0", dim |-> <<16, 2>>],
   [name |-> ".weight", type |-> "GGUF_TYPE_Q8_0", dim |-> <<32>>],
   [name |-> "q", type |-> "GGUF_TYPE_Q8_0", dim |-> <<32>>],
   [name |-> "q", type |-> "GGUF_TYPE_Q5_0", dim |-> <<32>>]}

ExtDescriptorSeqs == UNION {[1..n -> ExtDescriptors] : n \in 0..MaxExtTensors}

ExtAlignment == 32

\* the bytes of a tensor: a pattern, with the scale of every quantized block
\* a power of two (1, 0.5 or 32768, by block and tensor)
ExtPayload(type, seed, n) ==
  LET tf == TypeFeatures(type)
  IN [j \in 1..n |->
        IF tf.items = 1 THEN Pattern("uint8", seed, n)[j]
        ELSE IF (j - 1) % tf.bytes = 0 THEN 0
        ELSE IF (j - 1) % tf.bytes = 1
          THEN <<60, 56, 120>>[((seed + ((j - 1) \div tf.bytes)) % 3) + 1]
        ELSE Pattern("uint8", seed, n)[j]]

RECURSIVE ExtLayout(_, _, _)
\* the descriptors and the data section of a well-formed file: every tensor
\* at the next aligned offset, with its own bytes
ExtLayout(descs, k, file) ==
  IF k > Len(descs) THEN file
  ELSE LET d == descs[k]
           off == Len(file.data) + gguf_get_alignment_padding(ExtAlignment, Len(file.data))
           tf == TypeFeatures(d.type)
           n == Product(d.dim)
           bsize == ((n + gguf_get_alignment_padding(tf.items, n)) \div tf.items) * tf.bytes
       IN ExtLayout(descs, k + 1,
            gguf_append_tensor_data(
              gguf_append_tensor_info(file, d.name, Len(d.dim), d.dim, d.type, off),
              ExtAlignment, ExtPayload(d.type, k, bsize)))

ExtFile(kvs, descs) ==
  ExtLayout(descs, 1, [exists |-> TRUE, kv |-> kvs, ti |-> <<>>, data |-> <<>>])

ExternalFiles ==
  {ExtFile(kvs, <<[name |-> "q", type |-> "GGUF_TYPE_F32", dim |-> <<2>>]>>) :
     kvs \in ExtKVSeqs}
    \cup {ExtFile(<<>>, descs) : descs \in ExtDescriptorSeqs}

\* what a fresh allocation may hold
HeapBytes == {0, 165}

NoKey == [name |-> "", type |-> None, val |-> ScalarValue(<<>>), size |-> 0]

\* ------------------------------------------------------------------------
\* State
\* ------------------------------------------------------------------------
VARIABLES
  pc,            \* where the caller / the running call is
  call,          \* the arguments of the save_gguf call: array_map, metadata
  array_map,     \* save_gguf's own copy of array_map (by-value parameter)
  order,         \* iteration order of array_map
  meta_order,    \* iteration order of metadata
  i,             \* position of the running loop
  tensor_offset, \* save_gguf's tensor_offset
  ctx,           \* the gguf_ctx of the running call
  disk,          \* the container file
  log,           \* the appends save_gguf made through the context, in order
  save_outcome,  \* "none", "ok" or "error"
  load_outcome,  \* "none", "ok" or "error"
  metadata,      \* load_metadata's map
  arrays,        \* load_arrays' map
  thrown,        \* what() of the exception the last call ended with, or ""
  last_key,      \* the record last handed to set_mx_value_from_gguf
  heap           \* the byte fresh allocations of the running load hold

vars == <<pc, call, array_map, order, meta_order, i, tensor_offset, ctx, disk, log,
          save_outcome, load_outcome, metadata, arrays, thrown, last_key, heap>>

Init ==
  /\ pc = "idle"
  /\ call = [array_map |-> EmptyMap, metadata |-> EmptyMap]
  /\ array_map = EmptyMap
  /\ order = <<>>
  /\ meta_order = <<>>
  /\ i = 0
  /\ tensor_offset = 0
  /\ ctx = NoCtx
  /\ disk = NoFile
  /\ log = <<>>
  /\ save_outcome = "none"
  /\ load_outcome = "none"
  /\ metadata = EmptyMap
  /\ arrays = EmptyMap
  /\ thrown = ""
  /\ last_key = NoKey
  /\ heap = 0

\* ------------------------------------------------------------------------
\* save_gguf
\* ------------------------------------------------------------------------
\* gguf_create fails: save_gguf throws before any context exists
SaveCreateFails ==
  /\ pc = "idle"
  /\ pc' = "saved"
  /\ save_outcome' = "error"
  /\ thrown' = "[save_gguf] gguf_create failed"
  /\ UNCHANGED <<call, array_map, order, meta_order, i, tensor_offset, ctx, disk, log,
                 load_outcome, metadata, arrays, last_key, heap>>

\* the call, up to the successful gguf_create
SaveCall ==
  /\ pc = "idle"
  /\ \E inp \in SaveInputs, al \in Alignments :
       /\ call' = [array_map |-> inp[1], metadata |-> inp[2]]
       /\ array_map' = inp[1]
       /\ \E o \in Orders(DOMAIN inp[1]) : order' = o
       /\ \E o \in Orders(DOMAIN inp[2]) : meta_order' = o
       /\ ctx' = [NoCtx EXCEPT !.open = TRUE, !.alignment = al]
  /\ disk' = [NoFile EXCEPT !.exists = TRUE]
  /\ pc' = "save_meta"
  /\ i' = 1
  /\ UNCHANGED <<tensor_offset, log, save_outcome, load_outcome, metadata, arrays,
                 thrown, last_key, heap>>

\* one iteration of the loop over the metadata
SaveMetaStep ==
  /\ pc = "save_meta"
  /\ i <= Len(meta_order)
  /\ LET key == meta_order[i]
         rec == save_metadata_entry(call.metadata[key])
     IN IF rec.throws
          THEN /\ pc' = "saved"
               /\ save_outcome' = "error"
               /\ thrown' = rec.what
               /\ UNCHANGED <<i, disk, log>>
          ELSE /\ disk' = gguf_append_kv(disk, key, rec.type, rec.val, rec.size)
               /\ log' = Append(log, [op |-> "kv", name |-> key, offset |-> 0, bytes |-> <<>>])
               /\ i' = i + 1
               /\ UNCHANGED <<pc, save_outcome, thrown>>
  /\ UNCHANGED <<call, array_map, order, meta_order, tensor_offset, ctx,
                 load_outcome, metadata, arrays, last_key, heap>>

\* the loop over the metadata is over; uint64_t tensor_offset = 0
SaveMetaDone ==
  /\ pc = "save_meta"
  /\ i > Len(meta_order)
  /\ pc' = "save_info"
  /\ i' = 1
  /\ tensor_offset' = 0
  /\ UNCHANGED <<call, array_map, order, meta_order, ctx, disk, log,
                 save_outcome, load_outcome, metadata, arrays, thrown, last_key, heap>>

\* arr.eval(); if (!row_contiguous) { arr = reshape(flatten(arr), arr.shape()); }
repair(arr) == IF arr.row_contiguous THEN arr ELSE MakeContiguous(arr)

\* variant: no padding
padded_offset_unpadded(alignment, offset) == offset

\* tensor_offset += gguf_get_alignment_padding(ctx->alignment, tensor_offset)
padded_offset(alignment, offset) == offset + gguf_get_alignment_padding(alignment, offset)

\* one iteration of the loop that appends the tensor info
SaveInfoStep ==
  /\ pc = "save_info"
  /\ i <= Len(order)
  /\ LET key == order[i]
         arr == repair(array_map[key])
         off == padded_offset(ctx.alignment, tensor_offset)
         gguf_type == dtype_to_gguf_tensor_type(arr.dtype)
         what == IF ~arr.row_contiguous
                   THEN "[save_gguf] can only serialize row-major arrays"
                 ELSE IF gguf_type = None THEN "[save_gguf] dtype is not supported"
                 ELSE ""
     IN /\ array_map' = [array_map EXCEPT ![key] = arr]
        /\ IF what # ""
             THEN /\ pc' = "saved"
                  /\ save_outcome' = "error"
                  /\ thrown' = what
                  /\ tensor_offset' = IF arr.row_contiguous THEN off ELSE tensor_offset
                  /\ UNCHANGED <<i, disk, log>>
             ELSE \E appended \in BOOLEAN :
                    IF appended
                      THEN /\ disk' = gguf_append_tensor_info(
                                        disk, key, ndim(arr), save_dims(arr), gguf_type, off)
                           /\ log' = Append(log, [op |-> "info", name |-> key,
                                                   offset |-> off, bytes |-> <<>>])
                           /\ tensor_offset' = off + nbytes(arr)
                           /\ i' = i + 1
                           /\ UNCHANGED <<pc, save_outcome, thrown>>
                      ELSE /\ pc' = "saved"
                           /\ save_outcome' = "error"
                           /\ thrown' = "[save_gguf] gguf_append_tensor_info failed"
                           /\ tensor_offset' = off
                           /\ UNCHANGED <<i, disk, log>>
  /\ UNCHANGED <<call, order, meta_order, ctx, load_outcome, metadata, arrays,
                 last_key, heap>>

\* the first loop over array_map is over
SaveInfoDone ==
  /\ pc = "save_info"
  /\ i > Len(order)
  /\ pc' = "save_data"
  /\ i' = 1
  /\ UNCHANGED <<call, array_map, order, meta_order, tensor_offset, ctx, disk, log,
                 save_outcome, load_outcome, metadata, arrays, thrown, last_key, heap>>

\* variant: the second loop visits the keys in the opposite order
data_order_reversed(ord, k) == ord[Len(ord) + 1 - k]

\* the key the k-th iteration of the second loop over array_map visits
data_order(ord, k) == ord[k]

\* one iteration of the loop that appends the tensor data
SaveDataStep ==
  /\ pc = "save_data"
  /\ i <= Len(order)
  /\ LET key == data_order(order, i)
         arr == array_map[key]
     IN \E appended \in BOOLEAN :
          IF appended
            THEN /\ disk' = gguf_append_tensor_data(disk, ctx.alignment, arr.data)
                 /\ log' = Append(log, [op |-> "data", name |-> key, offset |-> 0,
                                         bytes |-> arr.data])
                 /\ i' = i + 1
                 /\ UNCHANGED <<pc, save_outcome, thrown>>
            ELSE /\ pc' = "saved"
                 /\ save_outcome' = "error"
                 /\ thrown' = "[save_gguf] gguf_append_tensor_data failed"
                 /\ UNCHANGED <<i, disk, log>>
  /\ UNCHANGED <<call, array_map, order, meta_order, tensor_offset, ctx,
                 load_outcome, metadata, arrays, last_key, heap>>

\* gguf_close(ctx) and the return
SaveClose ==
  /\ pc = "save_data"
  /\ i > Len(order)
  /\ ctx' = [ctx EXCEPT !.open = FALSE]
  /\ pc' = "saved"
  /\ save_outcome' = "ok"
  /\ UNCHANGED <<call, array_map, order, meta_order, i, tensor_offset, disk, log,
                 load_outcome, metadata, arrays, thrown, last_key, heap>>

\* ------------------------------------------------------------------------
\* load_gguf
\* ------------------------------------------------------------------------
\* gguf_open fails (no such file): load_gguf throws before any context exists
LoadOpenFails ==
  /\ pc = "idle"
  /\ ~disk.exists
  /\ pc' = "loaded"
  /\ load_outcome' = "error"
  /\ thrown' = "[load_gguf] gguf_init failed"
  /\ UNCHANGED <<call, array_map, order, meta_order, i, tensor_offset, ctx, disk, log,
                 save_outcome, metadata, arrays, last_key, heap>>

\* the call, up to the successful gguf_open of a complete file
LoadCall ==
  /\ \/ pc = "saved" /\ save_outcome = "ok"
     \/ pc = "external"
  /\ ctx' = [NoCtx EXCEPT !.open = TRUE, !.alignment = ctx.alignment,
                          !.left_kv = Len(disk.kv), !.left_tensors = Len(disk.ti)]
  /\ \E h \in HeapBytes : heap' = h
  /\ pc' = "load_meta"
  /\ UNCHANGED <<call, array_map, order, meta_order, i, tensor_offset, disk, log,
                 save_outcome, load_outcome, metadata, arrays, thrown, last_key>>

\* the cursor is at the start of a metadata record
AtKey(c, file) ==
  /\ ~c.lost
  /\ \E k \in 1..Len(file.kv) : KVStart(file.kv, k) = c.off

\* what gguf_get_key parses at ctx->off: the record that starts there, or,
\* when the cursor is not at the start of a record, arbitrary bytes
KeysAt(c, file) ==
  IF AtKey(c, file)
    THEN {file.kv[CHOOSE k \in 1..Len(file.kv) : KVStart(file.kv, k) = c.off]}
    ELSE GarbageKeys

\* one iteration of load_metadata's loop: gguf_get_key returned 1
LoadMetaStep ==
  /\ pc = "load_meta"
  /\ ctx.left_kv > 0
  /\ \E key \in KeysAt(ctx, disk) :
       LET rec == set_mx_value_from_gguf(key.type, key.val)
           after_key == ctx.off + 8 + Len(key.name) + 4
       IN /\ ctx' = [ctx EXCEPT !.left_kv = @ - 1,
                                !.lost = ~AtKey(ctx, disk),
                                !.off = after_key + rec.adv]
          /\ last_key' = key
          /\ IF rec.throws
               THEN /\ pc' = "loaded"
                    /\ load_outcome' = "error"
                    /\ thrown' = rec.what
                    /\ metadata' = EmptyMap
               ELSE /\ metadata' = load_metadata_store(metadata, key.name, rec.value)
                    /\ UNCHANGED <<pc, load_outcome, thrown>>
  /\ UNCHANGED <<call, array_map, order, meta_order, i, tensor_offset, disk, log,
                 save_outcome, arrays, heap>>

\* gguf_get_key returned 0: load_metadata returns
LoadMetaDone ==
  /\ pc = "load_meta"
  /\ ctx.left_kv = 0
  /\ pc' = "load_arrays"
  /\ UNCHANGED <<call, array_map, order, meta_order, i, tensor_offset, ctx, disk, log,
                 save_outcome, load_outcome, metadata, arrays, thrown, last_key, heap>>

RECURSIVE SumTISizes(_, _)
SumTISizes(tis, upto) ==
  IF upto = 0 THEN 0 ELSE SumTISizes(tis, upto - 1) + TISize(tis[upto])

\* offset of the k-th tensor descriptor, relative to the first metadata record
TIStart(file, k) == KVEnd(file.kv) + SumTISizes(file.ti, k - 1)

\* the cursor is at the start of the next tensor descriptor
AtTensor(c, file) ==
  /\ ~c.lost
  /\ c.left_tensors > 0
  /\ c.off = TIStart(file, Len(file.ti) - c.left_tensors + 1)

\* what gguf_get_tensor parses at ctx->off
TensorsAt(c, file) ==
  IF AtTensor(c, file)
    THEN {file.ti[Len(file.ti) - c.left_tensors + 1]}
    ELSE GarbageTensors

\* one iteration of load_arrays' loop: gguf_get_tensor returned 1
LoadTensorStep ==
  /\ pc = "load_arrays"
  /\ ctx.left_tensors > 0
  /\ \E ti \in TensorsAt(ctx, disk) :
       LET tensor == gguf_get_tensor(disk, ti)
           res == load_tensor(arrays, tensor, heap)
       IN /\ ctx' = [ctx EXCEPT !.left_tensors = @ - 1,
                                !.lost = ~AtTensor(ctx, disk),
                                !.off = @ + TISize(ti)]
          /\ IF res.throws
               THEN /\ pc' = "loaded"
                    /\ load_outcome' = "error"
                    /\ thrown' = res.what
                    /\ arrays' = EmptyMap
                    /\ metadata' = EmptyMap
               ELSE /\ arrays' = res.map
                    /\ UNCHANGED <<pc, load_outcome, thrown, metadata>>
  /\ UNCHANGED <<call, array_map, order, meta_order, i, tensor_offset, disk, log,
                 save_outcome, last_key, heap>>

\* gguf_get_tensor returned 0 (no tensor left, or a type code it does not
\* know at a cursor that is off the descriptors); gguf_close and the return
LoadClose ==
  /\ pc = "load_arrays"
  /\ ctx.left_tensors = 0 \/ ~AtTensor(ctx, disk)
  /\ ctx' = [ctx EXCEPT !.open = FALSE]
  /\ pc' = "loaded"
  /\ load_outcome' = "ok"
  /\ UNCHANGED <<call, array_map, order, meta_order, i, tensor_offset, disk, log,
                 save_outcome, metadata, arrays, thrown, last_key, heap>>

\* a container written by another program is put in place
ExternalFile ==
  /\ pc = "idle"
  /\ \E f \in ExternalFiles : disk' = f
  /\ pc' = "external"
  /\ UNCHANGED <<call, array_map, order, meta_order, i, tensor_offset, ctx, log,
                 save_outcome, load_outcome, metadata, arrays, thrown, last_key, heap>>

Next ==
  \/ SaveCreateFails
  \/ SaveCall
  \/ SaveMetaStep
  \/ SaveMetaDone
  \/ SaveInfoStep
  \/ SaveInfoDone
  \/ SaveDataStep
  \/ SaveClose
  \/ LoadOpenFails
  \/ LoadCall
  \/ LoadMetaStep
  \/ LoadMetaDone
  \/ LoadTensorStep
  \/ LoadClose
  \/ ExternalFile

Spec == Init /\ [][Next]_vars

\* ------------------------------------------------------------------------
\* Properties
\* ------------------------------------------------------------------------
\* a save_gguf call is running or has returned
InSave == pc \in {"save_meta", "save_info", "save_data"} \/ save_outcome # "none"

\* a successful save_gguf was followed by a load_gguf that has returned
SavedAndLoaded == pc = "loaded" /\ save_outcome = "ok"

\* the loaded tensor map equals the saved one
SameTensors ==
  /\ DOMAIN arrays = DOMAIN call.array_map
  /\ \A k \in DOMAIN arrays : ArrayEq(arrays[k], call.array_map[k])

\* x rounded up to the next multiple of a
AlignUp(x, a) == ((x + a - 1) \div a) * a

\* C1: a tensor map saved without metadata loads back as an empty metadata
\* map and a tensor map with the same keys, each tensor of equal dtype, shape
\* and elements.
RoundTripTensors ==
  (SavedAndLoaded /\ DOMAIN call.metadata = {}) =>
    /\ load_outcome = "ok"
    /\ DOMAIN metadata = {}
    /\ SameTensors

\* a 5-dimensional tensor whose buffer was not contiguous went through
RoundTripTensorsWitness ==
  /\ SavedAndLoaded
  /\ load_outcome = "ok"
  /\ DOMAIN call.metadata = {}
  /\ \E k \in DOMAIN call.array_map :
       /\ ndim(call.array_map[k]) = 5
       /\ ~call.array_map[k].row_contiguous
       /\ ArrayEq(arrays[k], call.array_map[k])

UnsupportedDtypes == {"bool_", "uint8", "uint32", "uint64", "int64", "bfloat16", "complex64"}

SupportedDtypes == {"int8", "int32", "float16", "float32"}

\* C2: save_gguf never succeeds on a map holding a tensor of an unsupported
\* dtype (it ends with an error); the dtype error is never raised for a
\* tensor of a supported dtype, and after a successful save every tensor of
\* a supported dtype loads back equal.
UnsupportedRejected ==
  /\ (pc = "saved" /\ \E k \in DOMAIN call.array_map :
                        call.array_map[k].dtype \in UnsupportedDtypes)
       => save_outcome = "error"
  /\ save_outcome = "ok" =>
       \A k \in DOMAIN call.array_map : call.array_map[k].dtype \notin UnsupportedDtypes
  /\ thrown = "[save_gguf] dtype is not supported" =>
       /\ pc = "saved" /\ save_outcome = "error"
       /\ array_map[order[i]].dtype \notin SupportedDtypes
  /\ SavedAndLoaded =>
       /\ load_outcome = "ok"
       /\ \A k \in DOMAIN call.array_map :
            call.array_map[k].dtype \in SupportedDtypes =>
              k \in DOMAIN arrays /\ ArrayEq(arrays[k], call.array_map[k])

\* a complex64 tensor was rejected with the dtype error
UnsupportedRejectedWitness ==
  /\ pc = "saved"
  /\ save_outcome = "error"
  /\ thrown = "[save_gguf] dtype is not supported"
  /\ array_map[order[i]].dtype = "complex64"

\* C3: a container saved with metadata of strings, numeric scalars and 1-D
\* numeric tensors loads back a metadata map with the same keys and equal
\* values, and the tensors saved alongside unchanged.
RoundTripMetadata ==
  (SavedAndLoaded /\ \A k \in DOMAIN call.metadata :
                       call.metadata[k].kind \in {"string", "array"}) =>
    /\ load_outcome = "ok"
    /\ DOMAIN metadata = DOMAIN call.metadata
    /\ \A k \in DOMAIN metadata : MetaEq(metadata[k], call.metadata[k])
    /\ SameTensors

\* a string and a 1-D tensor were saved next to two tensors and loaded
RoundTripMetadataWitness ==
  /\ SavedAndLoaded
  /\ load_outcome = "ok"
  /\ Cardinality(DOMAIN arrays) = 2
  /\ \E a, b \in DOMAIN metadata :
       /\ call.metadata[a].kind = "string" /\ metadata[a].str = "hello"
       /\ call.metadata[b].kind = "array" /\ metadata[b].arr.shape = <<3>>
       /\ ~call.metadata[b].arr.row_contiguous

\* C4: when save_gguf or load_gguf has returned, normally or by an
\* exception, the context it opened or created is closed.
ContextClosedOnReturn == pc \in {"saved", "loaded"} => ~ctx.open

ShapeOrderSymmetry ==
  /\ InSave =>
       \A k \in 1..Len(disk.ti) :
         LET host == call.array_map[disk.ti[k].name].shape
         IN /\ disk.ti[k].ndim = Len(host)
            /\ disk.ti[k].dim = Reverse(host)
            /\ get_shape(disk.ti[k]) = host
  /\ (SavedAndLoaded /\ load_outcome = "ok") =>
       \A k \in DOMAIN call.array_map :
         k \in DOMAIN arrays /\ arrays[k].shape = call.array_map[k].shape

\* host shape [3,2] was stored as [2,3] and loaded as [3,2]
ShapeOrderSymmetryWitness ==
  /\ SavedAndLoaded
  /\ load_outcome = "ok"
  /\ \E k \in 1..Len(disk.ti) :
       /\ disk.ti[k].dim = <<2, 3>>
       /\ call.array_map[disk.ti[k].name].shape = <<3, 2>>
       /\ arrays[disk.ti[k].name].shape = <<3, 2>>

InfoLog == SelectSeq(log, LAMBDA e : e.op = "info")

DataLog == SelectSeq(log, LAMBDA e : e.op = "data")

\* C7: save_gguf appends every descriptor before any tensor data; the k-th
\* payload is the contiguous bytes of the tensor the k-th descriptor names,
\* its length is the size the next descriptor's offset was computed from, and
\* it lies in the data section at its descriptor's offset.
DescriptorsThenData ==
  InSave =>
    /\ \A a, b \in 1..Len(log) : (log[a].op = "data" /\ log[b].op = "info") => b < a
    /\ Len(DataLog) <= Len(InfoLog)
    /\ \A k \in 1..Len(DataLog) :
         LET info == InfoLog[k]
             bytes == DataLog[k].bytes
         IN /\ DataLog[k].name = info.name
            /\ bytes = Elements(call.array_map[info.name])
            /\ k < Len(InfoLog) =>
                 InfoLog[k + 1].offset = AlignUp(info.offset + Len(bytes), ctx.alignment)
            /\ Len(disk.data) >= info.offset + Len(bytes)
            /\ DataAt(disk.data, info.offset, Len(bytes)) = bytes

\* two tensors of different sizes were written, descriptors first
DescriptorsThenDataWitness ==
  /\ pc = "saved"
  /\ save_outcome = "ok"
  /\ Len(DataLog) = 2
  /\ Len(DataLog[1].bytes) # Len(DataLog[2].bytes)
  /\ Len(DataLog[1].bytes) > 0
  /\ Len(DataLog[2].bytes) > 0

IsNestedArray(key) ==
  key.type = "GGUF_VALUE_TYPE_ARRAY" /\ key.val.atype = "GGUF_VALUE_TYPE_ARRAY"

\* C8: once a metadata value whose tag is array and whose inner tag is array
\* has been handed to the decoder, load_gguf has ended with the nested-array
\* error and returned neither map.
NestedArrayRejected ==
  IsNestedArray(last_key) =>
    /\ pc = "loaded"
    /\ load_outcome = "error"
    /\ thrown = "[load_gguf] Only supports loading 1-layer of nested arrays."
    /\ DOMAIN metadata = {}
    /\ DOMAIN arrays = {}

\* the second record of a file was a nested array, after a decoded first one
NestedArrayRejectedWitness ==
  /\ pc = "loaded"
  /\ Len(disk.kv) = 2
  /\ ~IsNestedArray(disk.kv[1])
  /\ last_key = disk.kv[2]
  /\ IsNestedArray(last_key)
  /\ load_outcome = "error"

\* the file was written by another program
Foreign == save_outcome = "none"

\* C9: when load_metadata has returned, every key of the metadata section
\* holds the value decoded from its last record in the file.
LastWriteWins ==
  (Foreign /\ pc = "load_arrays") =>
    \A k \in 1..Len(disk.kv) :
      (\A later \in (k + 1)..Len(disk.kv) : disk.kv[later].name # disk.kv[k].name) =>
        /\ disk.kv[k].name \in DOMAIN metadata
        /\ MetaEq(metadata[disk.kv[k].name],
                  set_mx_value_from_gguf(disk.kv[k].type, disk.kv[k].val).value)

\* a quantized weight tensor of a type whose extractor the source holds
IsQuantizedWeight(ti) ==
  /\ ends_with_weight(ti.name)
  /\ ti.type \in {"GGUF_TYPE_Q4_1", "GGUF_TYPE_Q8_0"}

\* C10: after a load that returned, every quantized tensor P.weight of the
\* file has its packed weights under P.weight and its own scales and biases
\* under P.scales and P.biases.
QuantizedNames ==
  (Foreign /\ pc = "loaded" /\ load_outcome = "ok" /\ ~ctx.lost) =>
    \A k \in 1..Len(disk.ti) :
      IsQuantizedWeight(disk.ti[k]) =>
        LET own == load_tensor(EmptyMap, gguf_get_tensor(disk, disk.ti[k]), heap).map
        IN \A n \in DOMAIN own : n \in DOMAIN arrays /\ arrays[n] = own[n]

\* the number of metadata records load_metadata has read
KeysRead == Len(disk.kv) - ctx.left_kv

\* C11: after set_mx_value_from_gguf has decoded the value of a record that
\* was read at its first byte, the cursor is at the first byte after that
\* value, where the next record (or the tensor section) starts.
CursorAfterValue ==
  (pc = "load_meta" /\ ~ctx.lost /\ KeysRead > 0) =>
    /\ last_key = disk.kv[KeysRead]
    /\ ctx.off = KVStart(disk.kv, KeysRead) + KVSize(last_key)

KnownSchemes == {"GGUF_TYPE_Q4_0", "GGUF_TYPE_Q4_1", "GGUF_TYPE_Q8_0"}

\* the last seven characters of the name are ".weight"
HasWeightSuffix(name) ==
  Len(name) >= 7 /\ SubSeq(name, Len(name) - 6, Len(name)) = ".weight"

\* the descriptor the next gguf_get_tensor reads
NextDescriptor == disk.ti[Len(disk.ti) - ctx.left_tensors + 1]

\* a step of the tensor-section read loop that read a descriptor of the file
ReadsTensor ==
  /\ pc = "load_arrays"
  /\ AtTensor(ctx, disk)
  /\ ctx'.left_tensors = ctx.left_tensors - 1

\* what a block extractor leaves: the tensor and its two companions, or the
\* error about the last dimension
ViaExtractor(ti) ==
  \/ /\ pc' = "loaded"
     /\ load_outcome' = "error"
     /\ thrown' = "[load_gguf] tensor " \o ti.name \o "has incompatible last dim shape: "
                     \o Decimal(ti.dim[1])
  \/ /\ pc' = "load_arrays"
     /\ DOMAIN arrays' =
          DOMAIN arrays \cup {ti.name,
                              SubSeq(ti.name, 1, Len(ti.name) - 7) \o ".scales",
                              SubSeq(ti.name, 1, Len(ti.name) - 7) \o ".biases"}
     /\ ti.name \notin DOMAIN arrays => arrays'[ti.name].dtype = "uint32"

\* what the generic path leaves: the bytes as they are under the host dtype
\* of the type code, or every element as float16, or the error of the
\* conversion routine when it reports failure
ViaGeneric(ti) ==
  LET tensor == gguf_get_tensor(disk, ti)
      dtype == gguf_type_to_dtype(ti.type)
      half == gguf_tensor_to_f16(tensor)
  IN \/ /\ pc' = "loaded"
        /\ load_outcome' = "error"
        /\ thrown' = "[load_gguf] gguf_tensor_to_f16 failed"
        /\ dtype = None
        /\ half.null
     \/ /\ pc' = "load_arrays"
        /\ DOMAIN arrays' = DOMAIN arrays \cup {ti.name}
        /\ ti.name \notin DOMAIN arrays =>
             LET a == arrays'[ti.name]
             IN /\ a.shape = Reverse(ti.dim)
                /\ IF dtype # None
                     THEN /\ a.dtype = dtype
                          /\ SubSeq(a.data, 1, tensor.num_weights * itemsize(dtype))
                               = SubSeq(tensor.weights_data, 1,
                                        tensor.num_weights * itemsize(dtype))
                     ELSE /\ a.dtype = "float16"
                          /\ ~half.null
                          /\ Len(a.data) = 2 * tensor.num_weights
                          /\ a.data = half.data

TensorsRead == Len(disk.ti) - ctx.left_tensors

\* load_arrays is reading, or has read, a file of another program without
\* losing its place and without an error
ReadingForeign ==
  /\ Foreign
  /\ pc \in {"load_arrays", "loaded"}
  /\ load_outcome # "error"
  /\ ~ctx.lost

PrefixOf(name) == SubSeq(name, 1, Len(name) - 7)

\* no descriptor before the k-th has taken the k-th tensor's name or one of
\* its companions' names
FreshNames(k) ==
  \A j \in 1..(k - 1) :
    disk.ti[j].name \notin {disk.ti[k].name, PrefixOf(disk.ti[k].name) \o ".scales",
                            PrefixOf(disk.ti[k].name) \o ".biases"}

\* the k-th tensor of the file was handed to the extractor of the scheme
ExtractedAs(k, scheme) ==
  /\ k <= TensorsRead
  /\ disk.ti[k].type = scheme
  /\ HasWeightSuffix(disk.ti[k].name)
  /\ Len(disk.ti[k].name) > 7
  /\ FreshNames(k)

\* the half-precision value h (two bytes) times -128, for a scale that is
\* zero or normal: the sign flipped and 7 added to the exponent, or infinity
\* of the flipped sign when the exponent leaves the finite range
Minus128Times(h) ==
  LET sign == h[2] \div 128
      e == (h[2] \div 4) % 32
      top == h[2] % 4
  IN IF e = 0 /\ top = 0 /\ h[1] = 0 THEN <<0, (1 - sign) * 128>>
     ELSE IF e + 7 >= 31 THEN <<0, (1 - sign) * 128 + 31 * 4>>
     ELSE <<h[1], (1 - sign) * 128 + (e + 7) * 4 + top>>

\* C13: for a tensor of N blocks of 34 bytes that extract_q8_0_data has
\* extracted, output weight byte i*32+j is input byte j+2 of block i with its
\* top bit flipped, scale i is the block's leading half-precision value and
\* bias i is -128 times scale i.
Q8Extraction ==
  ReadingForeign =>
    \A k \in 1..Len(disk.ti) :
      ExtractedAs(k, "GGUF_TYPE_Q8_0") =>
        LET tensor == gguf_get_tensor(disk, disk.ti[k])
            in == tensor.weights_data
            N == Product(disk.ti[k].dim) \div 32
            name == disk.ti[k].name
            weights == arrays[name].data
            scales == arrays[PrefixOf(name) \o ".scales"].data
            biases == arrays[PrefixOf(name) \o ".biases"].data
        IN /\ Len(in) = 34 * N
           /\ Len(weights) = 32 * N
           /\ Len(scales) = 2 * N
           /\ Len(biases) = 2 * N
           /\ \A b \in 0..(N - 1) :
                /\ \A j \in 0..31 :
                     /\ weights[b * 32 + j + 1] = (in[b * 34 + j + 2 + 1] + 128) % 256
                     /\ (weights[b * 32 + j + 1] >= 128) = (in[b * 34 + j + 2 + 1] < 128)
                     /\ weights[b * 32 + j + 1] % 128 = in[b * 34 + j + 2 + 1] % 128
                /\ <<scales[2 * b + 1], scales[2 * b + 2]>>
                     = <<in[b * 34 + 1], in[b * 34 + 2]>>
                /\ <<biases[2 * b + 1], biases[2 * b + 2]>>
                     = Minus128Times(<<in[b * 34 + 1], in[b * 34 + 2]>>)

\* a tensor of two blocks was extracted, one of them with a scale whose
\* product with -128 is finite and one whose product overflows
Q8ExtractionWitness ==
  /\ ReadingForeign
  /\ pc = "loaded"
  /\ \E k \in 1..Len(disk.ti) :
       /\ ExtractedAs(k, "GGUF_TYPE_Q8_0")
       /\ Product(disk.ti[k].dim) = 64
       /\ LET biases == arrays[PrefixOf(disk.ti[k].name) \o ".biases"].data
          IN /\ Len(biases) = 4
             /\ \E b \in 0..1 : biases[2 * b + 2] = 252
             /\ \E b \in 0..1 : biases[2 * b + 2] # 252

\* C14: for a tensor of N blocks of 20 bytes that extract_q4_1_data has
\* extracted, the packed weights depend on the input bytes only: for k in
\* 0..7, output byte i*16+k is the low nibble of b[2k] with the low nibble of
\* b[2k+1] above it and output byte i*16+8+k is the high nibble of b[2k] with
\* the high nibble of b[2k+1] above it, where b[0..15] are the block's weight
\* bytes; scale i and bias i are the block's first and second half.
Q4_1Extraction ==
  ReadingForeign =>
    \A k \in 1..Len(disk.ti) :
      ExtractedAs(k, "GGUF_TYPE_Q4_1") =>
        LET tensor == gguf_get_tensor(disk, disk.ti[k])
            in == tensor.weights_data
            N == Product(disk.ti[k].dim) \div 32
            name == disk.ti[k].name
            weights == arrays[name].data
            scales == arrays[PrefixOf(name) \o ".scales"].data
            biases == arrays[PrefixOf(name) \o ".biases"].data
        IN /\ Len(in) = 20 * N
           /\ Len(weights) = 16 * N
           /\ Len(scales) = 2 * N
           /\ Len(biases) = 2 * N
           /\ \A b \in 0..(N - 1) :
                /\ \A c \in 0..7 :
                     LET b0 == in[b * 20 + 4 + 2 * c + 1]
                         b1 == in[b * 20 + 4 + 2 * c + 2]
                     IN /\ weights[b * 16 + c + 1] = (b0 % 16) + 16 * (b1 % 16)
                        /\ weights[b * 16 + 8 + c + 1] = (b0 \div 16) + 16 * (b1 \div 16)
                /\ <<scales[2 * b + 1], scales[2 * b + 2]>>
                     = <<in[b * 20 + 1], in[b * 20 + 2]>>
                /\ <<biases[2 * b + 1], biases[2 * b + 2]>>
                     = <<in[b * 20 + 3], in[b * 20 + 4]>>

\* the k-th descriptor goes to a block extractor
Quantized(k) ==
  /\ disk.ti[k].type \in KnownSchemes
  /\ HasWeightSuffix(disk.ti[k].name)
  /\ Len(disk.ti[k].name) > 7

\* the last host dimension is the first dimension of the file
HostLastDim(k) == disk.ti[k].dim[1]

\* C15: every tensor the tensor-section reader has produced is backed by as
\* many bytes as the product of its shape times the width of its dtype; for
\* an extracted quantized tensor the packed weights are uint32 with the last
\* dimension divided by 8 (4-bit) or 4 (8-bit) and the scales and biases are
\* float16 with the last dimension divided by 32; a quantized tensor whose
\* last dimension is not a multiple of 32 ends the load with an error that
\* names it, and that error is raised for no other tensor.
BufferLengths ==
  /\ \A n \in DOMAIN arrays :
       Len(arrays[n].data) = Product(arrays[n].shape) * itemsize(arrays[n].dtype)
  /\ ReadingForeign =>
       \A k \in 1..TensorsRead :
         (Quantized(k) /\ FreshNames(k)) =>
           LET name == disk.ti[k].name
               host == Reverse(disk.ti[k].dim)
               per_word == IF disk.ti[k].type = "GGUF_TYPE_Q8_0" THEN 4 ELSE 8
               weights == arrays[name]
               scales == arrays[PrefixOf(name) \o ".scales"]
               biases == arrays[PrefixOf(name) \o ".biases"]
           IN /\ HostLastDim(k) % 32 = 0
              /\ weights.dtype = "uint32"
              /\ Len(weights.shape) = Len(host)
              /\ \A d \in 1..Len(host) :
                   weights.shape[d] = IF d = Len(host) THEN HostLastDim(k) \div per_word
                                      ELSE host[d]
              /\ scales.dtype = "float16" /\ biases.dtype = "float16"
              /\ Len(scales.shape) = Len(host)
              /\ \A d \in 1..Len(host) :
                   scales.shape[d] = IF d = Len(host) THEN HostLastDim(k) \div 32 ELSE host[d]
              /\ biases.shape = scales.shape
              /\ Len(scales.data) = 2 * (Product(host) \div 32)
              /\ Len(biases.data) = Len(scales.data)
  /\ (Foreign /\ pc \in {"load_arrays", "loaded"} /\ ~ctx.lost) =>
       \A k \in 1..TensorsRead :
         (Quantized(k) /\ HostLastDim(k) % 32 # 0) =>
           /\ k = TensorsRead
           /\ pc = "loaded"
           /\ load_outcome = "error"
           /\ thrown = "[load_gguf] tensor " \o disk.ti[k].name
                         \o "has incompatible last dim shape: " \o Decimal(HostLastDim(k))
  /\ (Foreign /\ pc = "loaded" /\ ~ctx.lost /\ TensorsRead > 0
        /\ Len(thrown) >= 18 /\ SubSeq(thrown, 1, 18) = "[load_gguf] tensor") =>
       /\ Quantized(TensorsRead)
       /\ HostLastDim(TensorsRead) % 32 # 0

\* a 4-bit tensor of host shape [2,32] was loaded next to a plain one
BufferLengthsWitness ==
  /\ ReadingForeign
  /\ pc = "loaded"
  /\ DOMAIN arrays = {"q", "p.weight", "p.scales", "p.biases"}
  /\ arrays["q"].dtype = "int16"
  /\ arrays["p.weight"].shape = <<2, 4>>
  /\ Len(arrays["p.weight"].data) = 32
  /\ arrays["p.scales"].shape = <<2, 1>>
  /\ Len(arrays["p.biases"].data) = 4

====
